---- MODULE Spec2Model ----
(***************************************************************************)
(* The refresh job of the Asian-handicap predictor: run_for_leagues        *)
(* (pipeline/predictor.py) splits each league's schedule into a historical *)
(* and an upcoming set, fits the goal models, predicts and combines;       *)
(* refresh (manage.py) upserts League/Team/Match rows, appends Prediction  *)
(* rows and commits once.                                                  *)
(*                                                                         *)
(* Representation.  A timestamp is [day, tod]: day is the calendar date as *)
(* the integer yyyymmdd (all dates of the model lie in June 2024, so       *)
(* adding a Timedelta of days is integer addition), tod the time of day.   *)
(* A string that the code formats or rewrites (league code, team name,     *)
(* match id) is a sequence of one-character strings.  A float is a pair    *)
(* <<numerator, denominator>>; NaN has denominator 0.  A DataFrame is the  *)
(* sequence of its rows, each a record keyed by column name; the empty     *)
(* DataFrame is <<>>.                                                      *)
(***************************************************************************)
EXTENDS Integers, Sequences, FiniteSets, TLC

VARIABLES
    sched,     \* what fb.read_schedule() returns: the raw schedule table
    pc,        \* where the job is: "idle", "pipeline", "upsert", "raised"
    todo,      \* leagues the running loop has still to visit
    cur_lg,    \* refresh: the League row of the league being upserted
    cur_rows,  \* refresh: rows of its combined table still to visit
    locals,    \* per league visited by run_for_leagues: its local frames
    results,   \* the dict run_for_leagues builds: league -> blocks
    session,   \* db.session's view of the four tables (flushed, uncommitted)
    db,        \* the committed tables
    exc,       \* the exception that ended the run, if any
    runs,      \* refresh() calls ended (committed or raised)
    commits    \* refresh() calls that reached db.session.commit()

vars == <<sched, pc, todo, cur_lg, cur_rows, locals, results, session, db, exc, runs, commits>>

-----------------------------------------------------------------------------
(* Bounds of the model *)

MaxRows == 3

MaxWindowRows == 2

MaxRuns == 2

Margin == 1

-----------------------------------------------------------------------------
(* Configuration: predictor.py *)

FORECAST_DAYS == 4

START_DAYS_BACK == 1

TODAY_UTC == 20240610

START_UTC == TODAY_UTC - START_DAYS_BACK

END_UTC == TODAY_UTC + FORECAST_DAYS

-----------------------------------------------------------------------------
(* Floats *)

F(v) == <<v, 1>>

NaN == <<0, 0>>

None == <<0, -1>>

IsNaN(x) == x[2] = 0

FloatEq(a, b) == a[2] # 0 /\ b[2] # 0 /\ a[1] * b[2] = b[1] * a[2]

-----------------------------------------------------------------------------
(* Strings as character sequences *)

Chr(d) == <<"0", "1", "2", "3", "4", "5", "6", "7", "8", "9">>[d + 1]

RECURSIVE Digits(_)
Digits(n) == IF n < 10 THEN <<Chr(n)>> ELSE Digits(n \div 10) \o <<Chr(n % 10)>>

\* strftime('%Y%m%d'): the date's eight digits; the time of day is dropped.
strftime_Ymd(ts) == Digits(ts.day)

\* str.replace(' ', '_')
replace_space(s) == [i \in 1..Len(s) |-> IF s[i] = " " THEN "_" ELSE s[i]]

-----------------------------------------------------------------------------
(* The data source's answers the model draws from *)

\* Times of day, in minutes after midnight: midnight and noon.
TIMES_OF_DAY == {0, 720}

LEAGUES == << <<"E">>, <<"F">> >>

TEAMS == << <<"A", " ", "B">>, <<"A", "_", "B">>, <<"C">> >>

\* Fixtures of the schedule, as <<home, away>>.
PAIRS == { <<TEAMS[1], TEAMS[2]>>, <<TEAMS[2], TEAMS[1]>>, <<TEAMS[1], TEAMS[3]>> }

Range(s) == {s[i] : i \in 1..Len(s)}

IndexOf(s, x) == CHOOSE i \in 1..Len(s) : s[i] = x

\* A raw schedule row.  score: the score string is present; xg: home_xg and
\* away_xg are present.  Only a played match has expected goals, and a match
\* dated after today has no score yet.
RawRow(lg, day, tod, pair, score, xg) ==
    [league |-> lg, date |-> [day |-> day, tod |-> tod],
     home_team |-> pair[1], away_team |-> pair[2], score |-> score, xg |-> xg]

Plausible(day, score, xg) == (xg => score) /\ (day > TODAY_UTC => ~score)

\* Two leagues, the day before the window and its last day, midnight only.
CoreRows ==
    {RawRow(lg, day, 0, pair, fl[1], fl[2]) :
        lg \in Range(LEAGUES), day \in {START_UTC - 1, END_UTC}, pair \in PAIRS,
        fl \in BOOLEAN \X BOOLEAN}

\* One league, one fixture, every day and time of day around the window.
WindowRows ==
    {RawRow(LEAGUES[1], day, tod, <<TEAMS[1], TEAMS[2]>>, fl[1], fl[2]) :
        day \in (START_UTC - Margin)..(END_UTC + Margin), tod \in TIMES_OF_DAY,
        fl \in BOOLEAN \X BOOLEAN}

RowRank(r) ==
    (((((IndexOf(LEAGUES, r.league) * 100 + (r.date.day - TODAY_UTC + 50)) * 10 + r.date.tod) * 10
        + IndexOf(TEAMS, r.home_team)) * 10 + IndexOf(TEAMS, r.away_team)) * 2
        + (IF r.score THEN 1 ELSE 0)) * 2 + (IF r.xg THEN 1 ELSE 0)

\* The schedule comes indexed by (league, season, game) and sorted on it.
SortedRows(s) == \A i \in 1..(Len(s) - 1) : RowRank(s[i]) <= RowRank(s[i + 1])

\* The data source may list a fixture twice; no table of the model lists one
\* more often than that.
AtMostTwice(s) == \A i \in 1..(Len(s) - 2) : s[i] # s[i + 2]

Tables(rows, n) ==
    {s \in UNION {[1..k -> {r \in rows : Plausible(r.date.day, r.score, r.xg)}] : k \in 0..n} :
        SortedRows(s) /\ AtMostTwice(s)}

Schedules == Tables(CoreRows, MaxRows) \cup Tables(WindowRows, MaxWindowRows)

-----------------------------------------------------------------------------
(* pipeline/predictor.py *)

\* _clean_schedule: keep and rename the columns.  The parsed goal counts are
\* not carried: nothing below reads them but the collaborator's fit.
clean_schedule(df) ==
    [i \in 1..Len(df) |->
        [League |-> df[i].league, Date |-> df[i].date, Home |-> df[i].home_team,
         Away |-> df[i].away_team, Score |-> df[i].score, xG |-> df[i].xg]]

\* .dt.normalize(): the timestamp at midnight, i.e. its date.
normalize(ts) == ts.day

historical_mask_le(r) == normalize(r.Date) <= START_UTC /\ r.Score

\* (date_only < START_UTC) & df["Score"].notna()
historical_mask(r) == normalize(r.Date) < START_UTC /\ r.Score

upcoming_mask_raw(r) ==
    /\ normalize(r.Date) >= START_UTC
    /\ (r.Date.day < END_UTC \/ (r.Date.day = END_UTC /\ r.Date.tod = 0))

\* (date_only >= START_UTC) & (date_only <= END_UTC)
upcoming_mask(r) == normalize(r.Date) >= START_UTC /\ normalize(r.Date) <= END_UTC

\* The collaborator's fitted model: its family, its input and the teams of
\* its training rows.
fit(family, use_xg, rows) ==
    [family |-> family, use_xg |-> use_xg,
     teams |-> {rows[i].Home : i \in 1..Len(rows)} \cup {rows[i].Away : i \in 1..Len(rows)}]

\* fit() on an empty training set fails.
fit_fails(rows) == rows = <<>>

\* predict(home, away) fails unless both teams were in the training data.
predict_fails(model, home, away) == home \notin model.teams \/ away \notin model.teams

\* The goal expectations of a fitted model, in hundredths of a goal: some
\* fixed function of the model and the two teams, different for each model.
predict(model, home, away) ==
    [home_goal_expectation |->
        100 + 10 * Len(home) + (IF model.family = "wb" THEN 7 ELSE 0)
            + (IF model.use_xg THEN 20 ELSE 0),
     away_goal_expectation |-> 100 + 25 * Len(away)]

NoModel == [family |-> "none", use_xg |-> FALSE, teams |-> {}]

\* _predict_frame: one row per upcoming row; raises: a predict call failed.
predict_frame(model, upcoming) ==
    IF model = NoModel \/ upcoming = <<>> THEN [raises |-> FALSE, df |-> <<>>]
    ELSE [raises |-> \E i \in 1..Len(upcoming) :
                        predict_fails(model, upcoming[i].Home, upcoming[i].Away),
          df |-> [i \in 1..Len(upcoming) |->
                    LET r == upcoming[i]
                        pred == predict(model, r.Home, r.Away)
                    IN [League |-> r.League, Date |-> r.Date, Home |-> r.Home,
                        Away |-> r.Away,
                        home_exp |-> F(pred.home_goal_expectation),
                        away_exp |-> F(pred.away_goal_expectation)]]]

SameKey(a, b) ==
    a.League = b.League /\ a.Date = b.Date /\ a.Home = b.Home /\ a.Away = b.Away

\* tmp[alias] = tmp[h_away] - tmp[h_home]
handicap(t) == <<t.away_exp[1] - t.home_exp[1], 1>>

\* combined.merge(tmp[[keys, alias]], on=keys, how="left"): every left row,
\* in order, once per right row with its key (once with NaN when none has).
RECURSIVE merge_left(_, _, _)
merge_left(left, tmp, alias) ==
    IF left = <<>> THEN <<>>
    ELSE LET l == Head(left)
             hits == SelectSeq(tmp, LAMBDA t : SameKey(l, t))
             out == IF hits = <<>> THEN <<l @@ (alias :> NaN)>>
                    ELSE [j \in 1..Len(hits) |-> l @@ (alias :> handicap(hits[j]))]
         IN out \o merge_left(Tail(left), tmp, alias)

merge_if(combined, df_src, alias) ==
    IF df_src = <<>> THEN combined ELSE merge_left(combined, df_src, alias)

HANDICAP_COLS ==
    <<"bp_home_handicap_ag", "bp_home_handicap_xg",
      "wb_home_handicap_ag", "wb_home_handicap_xg">>

\* .mean(axis=1, skipna=True) over the four handicap columns of a row
mean_skipna(row) ==
    LET present == {c \in Range(HANDICAP_COLS) : ~IsNaN(row[c])}
        S[k \in 0..Len(HANDICAP_COLS)] ==
            IF k = 0 THEN 0
            ELSE S[k - 1] + (IF IsNaN(row[HANDICAP_COLS[k]]) THEN 0
                             ELSE row[HANDICAP_COLS[k]][1])
    IN IF present = {} THEN NaN ELSE <<S[Len(HANDICAP_COLS)], Cardinality(present)>>

EmptyBlocks ==
    [bp_xg |-> <<>>, wb_xg |-> <<>>, bp_ag |-> <<>>, wb_ag |-> <<>>, combined |-> <<>>]

NoFrames == [bp_xg |-> <<>>, wb_xg |-> <<>>, bp_ag |-> <<>>, wb_ag |-> <<>>]

\* _fit_and_predict.  Returns what it raised ("none": it returned), the
\* models it fitted, the four prediction frames and the merged table as far
\* as it got, and the blocks it returns.
fit_and_predict(historical, upcoming) ==
    LET hist_xg == SelectSeq(historical, LAMBDA r : r.xG)
        bp_xg == IF hist_xg # <<>> THEN fit("bp", TRUE, hist_xg) ELSE NoModel
        wb_xg == IF hist_xg # <<>> THEN fit("wb", TRUE, hist_xg) ELSE NoModel
        bp_ag == fit("bp", FALSE, historical)
        wb_ag == fit("wb", FALSE, historical)
        fitted_xg == IF hist_xg # <<>> THEN {"bp_xg", "wb_xg"} ELSE {}
        p_bp_xg == predict_frame(bp_xg, upcoming)
        p_wb_xg == predict_frame(wb_xg, upcoming)
        p_bp_ag == predict_frame(bp_ag, upcoming)
        p_wb_ag == predict_frame(wb_ag, upcoming)
        frames == [bp_xg |-> p_bp_xg.df, wb_xg |-> p_wb_xg.df,
                   bp_ag |-> p_bp_ag.df, wb_ag |-> p_wb_ag.df]
        keys == [i \in 1..Len(upcoming) |->
                    [League |-> upcoming[i].League, Date |-> upcoming[i].Date,
                     Home |-> upcoming[i].Home, Away |-> upcoming[i].Away]]
        m1 == merge_if(keys, p_bp_ag.df, "bp_home_handicap_ag")
        m2 == merge_if(m1, p_bp_xg.df, "bp_home_handicap_xg")
        m3 == merge_if(m2, p_wb_ag.df, "wb_home_handicap_ag")
        merged == merge_if(m3, p_wb_xg.df, "wb_home_handicap_xg")
        combined == [i \in 1..Len(merged) |->
                        merged[i] @@ ("Average Handicap" :> mean_skipna(merged[i]))]
    IN IF fit_fails(historical)
       THEN [exc |-> "FitError", fitted |-> fitted_xg, frames |-> NoFrames,
             merged |-> <<>>, blocks |-> EmptyBlocks]
       ELSE IF p_bp_xg.raises \/ p_wb_xg.raises \/ p_bp_ag.raises \/ p_wb_ag.raises
       THEN [exc |-> "PredictError", fitted |-> fitted_xg \cup {"bp_ag", "wb_ag"},
             frames |-> NoFrames, merged |-> <<>>, blocks |-> EmptyBlocks]
       ELSE IF merged = <<>> \/ \E c \in Range(HANDICAP_COLS) : c \notin DOMAIN merged[1]
       THEN [exc |-> "KeyError", fitted |-> fitted_xg \cup {"bp_ag", "wb_ag"},
             frames |-> frames, merged |-> merged, blocks |-> EmptyBlocks]
       ELSE [exc |-> "none", fitted |-> fitted_xg \cup {"bp_ag", "wb_ag"},
             frames |-> frames, merged |-> merged,
             blocks |-> [bp_xg |-> p_bp_xg.df, wb_xg |-> p_wb_xg.df,
                         bp_ag |-> p_bp_ag.df, wb_ag |-> p_wb_ag.df,
                         combined |-> combined]]

run_league_always_fit(df_lg) ==
    LET df == clean_schedule(df_lg)
        historical == SelectSeq(df, historical_mask)
        upcoming == SelectSeq(df, upcoming_mask)
        fp == fit_and_predict(historical, upcoming)
    IN [historical |-> historical, upcoming |-> upcoming, exc |-> fp.exc,
        fitted |-> fp.fitted, frames |-> fp.frames, merged |-> fp.merged,
        blocks |-> fp.blocks]

\* The body of run_for_leagues' loop for one league's rows.
run_league(df_lg) ==
    LET df == clean_schedule(df_lg)
        historical == SelectSeq(df, historical_mask)
        upcoming == SelectSeq(df, upcoming_mask)
        fp == fit_and_predict(historical, upcoming)
    IN IF upcoming = <<>>
       THEN [historical |-> historical, upcoming |-> upcoming, exc |-> "none",
             fitted |-> {}, frames |-> NoFrames, merged |-> <<>>,
             blocks |-> EmptyBlocks]
       ELSE [historical |-> historical, upcoming |-> upcoming, exc |-> fp.exc,
             fitted |-> fp.fitted, frames |-> fp.frames, merged |-> fp.merged,
             blocks |-> fp.blocks]

\* sched.groupby(level=0): the leagues of the schedule, sorted.
groupby_keys(table) ==
    SelectSeq(LEAGUES, LAMBDA lg : \E i \in 1..Len(table) : table[i].league = lg)

group(table, lg) == SelectSeq(table, LAMBDA r : r.league = lg)

-----------------------------------------------------------------------------
(* models.py, manage.py *)

EmptyTables == [League |-> <<>>, Team |-> <<>>, Match |-> <<>>, Prediction |-> <<>>]

\* The five labels refresh stores, with the column each reads.
LABELS ==
    << <<"BP-ag", "bp_home_handicap_ag">>, <<"BP-xg", "bp_home_handicap_xg">>,
       <<"WB-ag", "wb_home_handicap_ag">>, <<"WB-xg", "wb_home_handicap_xg">>,
       <<"BP+WB Avg", "Average Handicap">> >>

\* f"{league}-{date:%Y%m%d}-{home}-{away}".replace(' ', '_')
make_match_id(league, date_dt, home, away) ==
    replace_space(league \o <<"-">> \o strftime_Ymd(date_dt) \o <<"-">> \o home
                  \o <<"-">> \o away)

\* row.get(col): None when the table has no such column
row_get(row, col) == IF col \in DOMAIN row THEN row[col] ELSE None

\* nz: float(val) if val == val else 0.0; 0.0 too when float(val) raises
nz(val) == IF val = None \/ IsNaN(val) THEN F(0) ELSE val

\* Team.query.filter_by(league_id, name).first(), else add and flush
upsert_team(sess, league_id, name) ==
    LET found == SelectSeq(sess.Team, LAMBDA t : t.league_id = league_id /\ t.name = name)
        t == [id |-> Len(sess.Team) + 1, name |-> name, league_id |-> league_id]
    IN IF found # <<>> THEN [sess |-> sess, t |-> found[1]]
       ELSE [sess |-> [sess EXCEPT !.Team = Append(@, t)], t |-> t]

\* League.query.filter_by(code).first(), else add and flush
upsert_league(sess, league_code) ==
    LET found == SelectSeq(sess.League, LAMBDA l : l.code = league_code)
        new == [id |-> Len(sess.League) + 1, code |-> league_code, name |-> league_code]
    IN IF found # <<>> THEN [sess |-> sess, lg |-> found[1]]
       ELSE [sess |-> [sess EXCEPT !.League = Append(@, new)], lg |-> new]

\* Match.query.get(mid), else add; an existing match is left as it is
upsert_match(sess, mid, league, home_t, away_t, date_dt) ==
    LET found == SelectSeq(sess.Match, LAMBDA m : m.id = mid)
        m == [id |-> mid, league_id |-> league.id, home_team_id |-> home_t.id,
              away_team_id |-> away_t.id, kickoff_utc |-> date_dt,
              status |-> "scheduled"]
    IN IF found # <<>> THEN sess ELSE [sess EXCEPT !.Match = Append(@, m)]

\* A Prediction row.  The six placeholder columns, which refresh sets to the
\* same neutral values in every row, and created_at are left out.
NewPrediction(id, mid, label, ah) ==
    [id |-> id, match_id |-> mid, model |-> label, ah_line |-> ah]

add_predictions_upsert(sess, mid, row) ==
    LET missing == SelectSeq(LABELS, LAMBDA lb :
                        ~\E i \in 1..Len(sess.Prediction) :
                            sess.Prediction[i].match_id = mid
                            /\ sess.Prediction[i].model = lb[1])
        n == Len(sess.Prediction)
    IN [sess EXCEPT !.Prediction = @ \o
            [k \in 1..Len(missing) |->
                NewPrediction(n + k, mid, missing[k][1], nz(row_get(row, missing[k][2])))]]

\* db.session.add(Prediction(...)) for each of the five labels
add_predictions(sess, mid, row) ==
    LET n == Len(sess.Prediction)
    IN [sess EXCEPT !.Prediction = @ \o
            [k \in 1..Len(LABELS) |->
                NewPrediction(n + k, mid, LABELS[k][1], nz(row_get(row, LABELS[k][2])))]]

\* The body of refresh's loop over combined.iterrows()
refresh_row(sess, league, league_code, row) ==
    LET mid == make_match_id(league_code, row.Date, row.Home, row.Away)
        h == upsert_team(sess, league.id, row.Home)
        a == upsert_team(h.sess, league.id, row.Away)
        s3 == upsert_match(a.sess, mid, league, h.t, a.t, row.Date)
    IN add_predictions(s3, mid, row)

\* combined is None or combined.empty: continue
skip_league(blocks) == blocks.combined = <<>>

NoLeague == [id |-> 0, code |-> <<>>, name |-> <<>>]

-----------------------------------------------------------------------------
(* The job *)

Init ==
    /\ sched \in Schedules
    /\ pc = "idle"
    /\ todo = <<>>
    /\ cur_lg = NoLeague
    /\ cur_rows = <<>>
    /\ locals = <<>>
    /\ results = <<>>
    /\ session = EmptyTables
    /\ db = EmptyTables
    /\ exc = [type |-> "none", league |-> <<>>]
    /\ runs = 0
    /\ commits = 0

\* refresh() is called: run_for_leagues reads the schedule and groups it.
StartRefresh ==
    /\ pc = "idle"
    /\ runs < MaxRuns
    /\ pc' = "pipeline"
    /\ todo' = groupby_keys(sched)
    /\ locals' = <<>>
    /\ results' = <<>>
    /\ exc' = [type |-> "none", league |-> <<>>]
    /\ UNCHANGED <<sched, cur_lg, cur_rows, session, db, runs, commits>>

\* One pass of run_for_leagues' loop; after the last, refresh starts on
\* results.items().
RunLeague ==
    /\ pc = "pipeline"
    /\ todo # <<>>
    /\ LET code == Head(todo)
           out == run_league(group(sched, code))
           seen == [historical |-> out.historical, upcoming |-> out.upcoming,
                    fitted |-> out.fitted, frames |-> out.frames,
                    merged |-> out.merged, exc |-> out.exc]
       IN /\ locals' = locals @@ (code :> seen)
          /\ IF out.exc # "none"
             THEN /\ pc' = "raised"
                  /\ exc' = [type |-> out.exc, league |-> code]
                  /\ UNCHANGED <<results, todo>>
             ELSE /\ results' = results @@ (code :> out.blocks)
                  /\ exc' = exc
                  /\ IF Tail(todo) = <<>>
                     THEN /\ pc' = "upsert"
                          /\ todo' = groupby_keys(sched)
                     ELSE /\ pc' = "pipeline"
                          /\ todo' = Tail(todo)
    /\ UNCHANGED <<sched, cur_lg, cur_rows, session, db, runs, commits>>

\* run_for_leagues on a schedule with no league returns {} at once.
RunNoLeague ==
    /\ pc = "pipeline"
    /\ todo = <<>>
    /\ pc' = "upsert"
    /\ UNCHANGED <<sched, todo, cur_lg, cur_rows, locals, results, session, db, exc, runs,
                   commits>>

\* refresh's loop over results.items() comes to a league: skip it, or
\* upsert its League row and start on its combined table.
UpsertLeague ==
    /\ pc = "upsert"
    /\ todo # <<>>
    /\ cur_lg = NoLeague
    /\ LET blocks == results[Head(todo)]
           u == upsert_league(session, Head(todo))
       IN IF skip_league(blocks)
          THEN /\ todo' = Tail(todo)
               /\ UNCHANGED <<cur_lg, cur_rows, session>>
          ELSE /\ session' = u.sess
               /\ cur_rows' = blocks.combined
               /\ IF blocks.combined = <<>>
                  THEN cur_lg' = NoLeague /\ todo' = Tail(todo)
                  ELSE cur_lg' = u.lg /\ todo' = todo
    /\ UNCHANGED <<sched, pc, locals, results, db, exc, runs, commits>>

\* One pass of refresh's loop over combined.iterrows().
UpsertRow ==
    /\ pc = "upsert"
    /\ cur_lg # NoLeague
    /\ session' = refresh_row(session, cur_lg, Head(todo), Head(cur_rows))
    /\ cur_rows' = Tail(cur_rows)
    /\ IF Tail(cur_rows) = <<>>
       THEN cur_lg' = NoLeague /\ todo' = Tail(todo)
       ELSE UNCHANGED <<cur_lg, todo>>
    /\ UNCHANGED <<sched, pc, locals, results, db, exc, runs, commits>>

\* db.session.commit()
Commit ==
    /\ pc = "upsert"
    /\ todo = <<>>
    /\ cur_lg = NoLeague
    /\ db' = session
    /\ pc' = "idle"
    /\ runs' = runs + 1
    /\ commits' = commits + 1
    /\ UNCHANGED <<sched, todo, cur_lg, cur_rows, locals, results, session, exc>>

\* A query's autoflush or a db.session.flush() of an upsert step fails in
\* the database: the exception leaves refresh's loops with whatever the
\* session has staged so far.
UpsertRaises ==
    /\ pc = "upsert"
    /\ todo # <<>>
    /\ pc' = "raised"
    /\ exc' = [type |-> "SQLAlchemyError", league |-> Head(todo)]
    /\ cur_lg' = NoLeague
    /\ cur_rows' = <<>>
    /\ UNCHANGED <<sched, todo, locals, results, session, db, runs, commits>>

\* What is left of the session when the exception leaves the app context
\* without a commit.
Abort_keeps_staged ==
    /\ pc = "raised"
    /\ pc' = "idle"
    /\ todo' = <<>>
    /\ runs' = runs + 1
    /\ UNCHANGED <<sched, cur_lg, cur_rows, locals, results, session, db, exc, commits>>

\* The exception leaves refresh(): the process ends and the session's
\* uncommitted rows are gone.
Abort ==
    /\ pc = "raised"
    /\ session' = db
    /\ pc' = "idle"
    /\ todo' = <<>>
    /\ runs' = runs + 1
    /\ UNCHANGED <<sched, cur_lg, cur_rows, locals, results, db, exc, commits>>

Next ==
    StartRefresh \/ RunLeague \/ RunNoLeague \/ UpsertLeague \/ UpsertRow
        \/ UpsertRaises \/ Commit \/ Abort

Spec == Init /\ [][Next]_vars

-----------------------------------------------------------------------------
(* What the properties below read *)

Frame(code) == clean_schedule(group(sched, code))

InFrame(r, df) == \E i \in 1..Len(df) : df[i] = r

\* The rows of every combined table of results, each with its league code
\* and its place.
CombinedRows ==
    UNION {{[code |-> c, i |-> i, row |-> results[c].combined[i]] :
                i \in 1..Len(results[c].combined)} : c \in DOMAIN results}

FixtureKey(x) == <<x.code, x.row.Date.day, x.row.Home, x.row.Away>>

IdOf(x) == make_match_id(x.code, x.row.Date, x.row.Home, x.row.Away)

RowsWithId(m) == Cardinality({x \in CombinedRows : IdOf(x) = m})

CountPred(table, m, label) ==
    Cardinality({i \in 1..Len(table) :
                    table[i].match_id = m /\ table[i].model = label})

LabelNames == {LABELS[k][1] : k \in 1..Len(LABELS)}

\* The fixture a Match row stands for, read back through its foreign keys.
MatchFixture(t, m) ==
    <<t.League[m.league_id].code, m.kickoff_utc.day, t.Team[m.home_team_id].name,
      t.Team[m.away_team_id].name>>

LeagueIds(t, code) == {t.League[i].id : i \in {j \in 1..Len(t.League) : t.League[j].code = code}}

\* The rows a store holds for a league code.
RowsOfLeague(t, code) ==
    LET ids == LeagueIds(t, code)
        mids == {t.Match[i].id : i \in {j \in 1..Len(t.Match) : t.Match[j].league_id \in ids}}
    IN [League |-> ids,
        Team |-> {i \in 1..Len(t.Team) : t.Team[i].league_id \in ids},
        Match |-> mids,
        Prediction |-> {i \in 1..Len(t.Prediction) : t.Prediction[i].match_id \in mids}]

NoRowsOfLeague(t, code) ==
    LET r == RowsOfLeague(t, code)
    IN r.League = {} /\ r.Team = {} /\ r.Match = {} /\ r.Prediction = {}

Configured == START_DAYS_BACK = 1 /\ FORECAST_DAYS = 4 /\ TODAY_UTC = 20240610

-----------------------------------------------------------------------------
(* C1 *)

\* C1: a second refresh on the same input changes no League, Team or Match
\* row and adds none, and the store holds exactly one League row per league
\* code, one Team row per (league, team name) and one Match row per distinct
\* (league, date, home, away) fixture.
C1_IdempotentUpsert ==
    /\ (pc = "upsert" /\ commits >= 1) =>
            /\ session.League = db.League
            /\ session.Team = db.Team
            /\ session.Match = db.Match
    /\ (pc = "idle" /\ commits >= 1) =>
            /\ \A c \in {x.code : x \in CombinedRows} :
                    Cardinality({i \in 1..Len(db.League) : db.League[i].code = c}) = 1
            /\ \A x \in CombinedRows : \A name \in {x.row.Home, x.row.Away} :
                    Cardinality({i \in 1..Len(db.Team) :
                        /\ db.Team[i].name = name
                        /\ db.Team[i].league_id \in LeagueIds(db, x.code)}) = 1
            /\ \A x \in CombinedRows :
                    Cardinality({i \in 1..Len(db.Match) :
                        MatchFixture(db, db.Match[i]) = FixtureKey(x)}) = 1

-----------------------------------------------------------------------------
(* C10 *)

\* C10: two fixtures that differ in league code, date, home team or away
\* team get different match ids.
C10_UniqueMatchId ==
    \A x \in CombinedRows : \A y \in CombinedRows :
        FixtureKey(x) # FixtureKey(y) => IdOf(x) # IdOf(y)

-----------------------------------------------------------------------------
(* C2 *)

IsPrefix(a, b) == Len(a) <= Len(b) /\ SubSeq(b, 1, Len(a)) = a

\* Whether refresh has been through combined row x in the running call: its
\* league is left behind, or it is the current league's and before its place.
RowDone(x) ==
    \/ \A k \in 1..Len(todo) : todo[k] # x.code
    \/ /\ todo # <<>> /\ cur_lg # NoLeague /\ x.code = Head(todo)
       /\ x.i <= Len(results[x.code].combined) - Len(cur_rows)

\* C2 (as claimed, for tables in which no two fixtures share a match id):
\* after k committed runs on the same input every (match, model label) pair
\* has exactly k Prediction rows.
C2_ExactlyKPerMatch ==
    (pc = "idle" /\ commits >= 1 /\ C10_UniqueMatchId) =>
        \A i \in 1..Len(db.Match) : \A lb \in LabelNames :
            CountPred(db.Prediction, db.Match[i].id, lb) = commits

\* C2 (amended): predictions are only ever appended, five per combined row
\* (one per label, in the labels' order, all with that row's match id), and
\* after k committed runs a (match, label) pair has k rows for each combined
\* row that carries the match's id.
C2_AppendOnly ==
    LET all == CombinedRows
        T == {<<IdOf(x), x.code, x.i, RowDone(x)>> : x \in all}
        ids == {t[1] : t \in T}
        P == session.Prediction
    IN /\ IsPrefix(db.Prediction, P)
       /\ \A j \in 1..Len(P) :
            /\ P[j].id = j
            /\ P[j].model = LABELS[((j - 1) % 5) + 1][1]
            /\ P[j].match_id = P[j - ((j - 1) % 5)].match_id
       /\ pc = "upsert" =>
            /\ Len(P) = 5 * (commits * Cardinality(T) + Cardinality({t \in T : t[4]}))
            /\ \A m \in ids :
                LET n == commits * Cardinality({t \in T : t[1] = m})
                            + Cardinality({t \in T : t[1] = m /\ t[4]})
                IN \A lb \in LabelNames : CountPred(P, m, lb) = n
       /\ (pc = "idle" /\ commits >= 1) =>
            /\ Len(db.Prediction) = 5 * commits * Cardinality(T)
            /\ \A m \in ids :
                LET n == commits * Cardinality({t \in T : t[1] = m})
                IN \A lb \in LabelNames : CountPred(db.Prediction, m, lb) = n

\* Two committed runs, over a table in which one fixture has several
\* combined rows.
C2_Witness ==
    /\ pc = "idle"
    /\ commits = 2
    /\ \E x \in CombinedRows : \E y \in CombinedRows :
            x.i # y.i /\ FixtureKey(x) = FixtureKey(y)
    /\ \E x \in CombinedRows :
            CountPred(db.Prediction, IdOf(x), "BP+WB Avg") = 2 * RowsWithId(IdOf(x))

-----------------------------------------------------------------------------
(* C3, C4, C5, C6 *)

PresentCols(row) == {c \in Range(HANDICAP_COLS) : c \in DOMAIN row /\ ~IsNaN(row[c])}

RECURSIVE SumOver(_, _)
SumOver(row, cols) ==
    IF cols = {} THEN 0
    ELSE LET c == CHOOSE c \in cols : TRUE
         IN row[c][1] + SumOver(row, cols \ {c})

TrainedTeams(rows) ==
    {rows[i].Home : i \in 1..Len(rows)} \cup {rows[i].Away : i \in 1..Len(rows)}

\* C3: wherever at least one model produced a handicap for the upcoming
\* fixtures, the league's combined table gives each fixture an Average
\* Handicap equal to the mean of the handicaps that are present, whichever
\* of the four models are.
C3_AverageSkipsMissing ==
    \A c \in DOMAIN locals :
        (\E i \in 1..Len(locals[c].merged) : PresentCols(locals[c].merged[i]) # {}) =>
            /\ c \in DOMAIN results
            /\ Len(results[c].combined) = Len(locals[c].merged)
            /\ \A i \in 1..Len(locals[c].merged) :
                    LET row == locals[c].merged[i]
                    IN PresentCols(row) # {} =>
                        FloatEq(results[c].combined[i]["Average Handicap"],
                                <<SumOver(row, PresentCols(row)),
                                  Cardinality(PresentCols(row))>>)

\* C4: a league whose historical rows have no expected goals, with upcoming
\* fixtures between teams of those rows, gets its result without a raise:
\* empty bp_xg and wb_xg frames, and a combined row with both actual-goals
\* handicaps and an Average Handicap for every upcoming fixture.
C4_NoXgStillPredicts ==
    \A c \in DOMAIN locals :
        LET L == locals[c]
        IN (/\ L.historical # <<>>
            /\ \A i \in 1..Len(L.historical) : ~L.historical[i].xG
            /\ L.upcoming # <<>>
            /\ \A i \in 1..Len(L.upcoming) :
                    {L.upcoming[i].Home, L.upcoming[i].Away}
                        \subseteq TrainedTeams(L.historical))
           => /\ L.exc = "none"
              /\ c \in DOMAIN results
              /\ results[c].bp_xg = <<>>
              /\ results[c].wb_xg = <<>>
              /\ \A i \in 1..Len(L.upcoming) :
                    \E j \in 1..Len(results[c].combined) :
                        LET row == results[c].combined[j]
                        IN /\ SameKey(row, L.upcoming[i])
                           /\ ~IsNaN(row_get(row, "bp_home_handicap_ag"))
                           /\ row_get(row, "bp_home_handicap_ag") # None
                           /\ row_get(row, "wb_home_handicap_ag") # None
                           /\ ~IsNaN(row["Average Handicap"])

\* C5: an upcoming fixture with a team the models were not trained on does
\* not make run_for_leagues raise: the league gets its combined table, with
\* handicaps for the fixtures whose teams are known.
C5_UnseenTeamIsMissingValue ==
    \A c \in DOMAIN locals :
        LET L == locals[c]
        IN (/\ L.historical # <<>>
            /\ \A i \in 1..Len(L.historical) : L.historical[i].xG
            /\ \E i \in 1..Len(L.upcoming) :
                    ~({L.upcoming[i].Home, L.upcoming[i].Away}
                        \subseteq TrainedTeams(L.historical)))
           => /\ L.exc = "none"
              /\ pc # "raised"
              /\ c \in DOMAIN results
              /\ \A i \in 1..Len(L.upcoming) :
                    \E j \in 1..Len(results[c].combined) :
                        LET row == results[c].combined[j]
                        IN /\ SameKey(row, L.upcoming[i])
                           /\ ({row.Home, row.Away} \subseteq TrainedTeams(L.historical)
                                 => PresentCols(row) = Range(HANDICAP_COLS))

\* Leagues of the schedule that run_for_leagues can handle on their own.
HealthyLeagues ==
    {c \in Range(groupby_keys(sched)) :
        LET out == run_league(group(sched, c))
        IN out.exc = "none" /\ out.upcoming # <<>>}

\* C6: a league whose fit fails (no historical row, some upcoming fixture)
\* is skipped and nothing else: the run is not aborted, the league gets no
\* row, and every other league's predictions are in the store after the run.
C6_FitFailureSkipsOneLeague ==
    \A c \in DOMAIN locals :
        (locals[c].historical = <<>> /\ locals[c].upcoming # <<>> /\ HealthyLeagues # {}) =>
            /\ pc # "raised"
            /\ exc.type = "none"
            /\ NoRowsOfLeague(session, c)
            /\ (pc = "idle" /\ runs >= 1) =>
                    \A o \in HealthyLeagues : RowsOfLeague(db, o).Prediction # {}

-----------------------------------------------------------------------------
(* C7, C8 *)

\* C7 (as claimed): a finished match dated 2024-06-09 is in the historical
\* set, and an unscored match of that date is in neither set.
C7_YesterdayIsHistorical ==
    Configured =>
        \A c \in DOMAIN locals : \A r \in Range(Frame(c)) :
            r.Date.day = 20240609 =>
                /\ r.Score => InFrame(r, locals[c].historical)
                /\ ~r.Score => /\ ~InFrame(r, locals[c].historical)
                               /\ ~InFrame(r, locals[c].upcoming)

\* C7 (amended): a match dated 2024-06-09, the window's first day, is in the
\* upcoming set and not in the historical set, finished or not; the last
\* historical date is 2024-06-08, where a finished match is historical (and
\* not upcoming) and an unscored one is in neither set.
C7_WindowStartIsUpcoming ==
    Configured =>
        \A c \in DOMAIN locals : \A r \in Range(Frame(c)) :
            /\ r.Date.day = 20240609 =>
                    /\ InFrame(r, locals[c].upcoming)
                    /\ ~InFrame(r, locals[c].historical)
            /\ r.Date.day = 20240608 =>
                    /\ ~InFrame(r, locals[c].upcoming)
                    /\ InFrame(r, locals[c].historical) <=> r.Score

\* A finished match of 2024-06-09 has been split off as upcoming, beside a
\* match of 2024-06-08.
C7_Witness ==
    \E c \in DOMAIN locals :
        /\ \E r \in Range(locals[c].upcoming) : r.Date.day = 20240609 /\ r.Score
        /\ \E r \in Range(Frame(c)) : r.Date.day = 20240608

\* C8: the upcoming set is exactly the rows whose date, time of day
\* discarded, lies in [today - start_days_back, today + forecast_days], in
\* the table's order; so a match of 2024-06-14 is upcoming at any time of
\* day and a match of 2024-06-15 is not.
C8_UpcomingWindowInclusive ==
    \A c \in DOMAIN locals :
        /\ locals[c].upcoming =
                SelectSeq(Frame(c), LAMBDA r :
                    /\ r.Date.day >= TODAY_UTC - START_DAYS_BACK
                    /\ r.Date.day <= TODAY_UTC + FORECAST_DAYS)
        /\ Configured =>
                \A r \in Range(Frame(c)) :
                    /\ r.Date.day = 20240614 => InFrame(r, locals[c].upcoming)
                    /\ r.Date.day = 20240615 => ~InFrame(r, locals[c].upcoming)

\* A match at noon of 2024-06-14 is upcoming while one of 2024-06-15 in the
\* same table is not.
C8_Witness ==
    \E c \in DOMAIN locals :
        /\ \E r \in Range(locals[c].upcoming) : r.Date.day = 20240614 /\ r.Date.tod # 0
        /\ \E r \in Range(Frame(c)) :
                r.Date.day = 20240615 /\ ~InFrame(r, locals[c].upcoming)

-----------------------------------------------------------------------------
(* C9 *)

\* C9: a league with no upcoming fixture is passed over without a raise and
\* without a fit, its five frames are recorded empty, and neither the
\* session nor the store ever holds a League, Team, Match or Prediction row
\* of it.
C9_NoUpcomingNoRows ==
    \A c \in DOMAIN locals :
        locals[c].upcoming = <<>> =>
            /\ locals[c].exc = "none"
            /\ locals[c].fitted = {}
            /\ c \in DOMAIN results
            /\ results[c] = EmptyBlocks
            /\ NoRowsOfLeague(session, c)
            /\ NoRowsOfLeague(db, c)

\* A committed run in which a league with neither historical nor upcoming
\* rows was passed over while another league's predictions were stored.
C9_Witness ==
    /\ pc = "idle"
    /\ commits >= 1
    /\ \E c \in DOMAIN locals :
            /\ locals[c].upcoming = <<>>
            /\ locals[c].historical = <<>>
    /\ db.Prediction # <<>>

-----------------------------------------------------------------------------
(* C11 *)

\* C11: refresh() is all-or-nothing for the committed store.  The store
\* changes only in the one commit that follows the last league (every league
\* and every combined row visited), and it then becomes the session; a raise,
\* from run_for_leagues or from an upsert step, leaves the store as it was
\* and drops everything staged; and a run starts from a session that holds
\* nothing but the store, so a later commit carries no row of a failed run.
C11_AllOrNothing ==
    /\ [](pc \in {"idle", "pipeline"} => session = db)
    /\ [][
          /\ (db' # db) =>
                (/\ pc = "upsert" /\ todo = <<>> /\ cur_rows = <<>>
                 /\ pc' = "idle"
                 /\ db' = session
                 /\ commits' = commits + 1)
          /\ (pc = "raised") => (db' = db /\ session' = db /\ commits' = commits)
          /\ (pc' = "raised") => (db' = db)
        ]_vars

\* An upsert step has raised in a run that follows a committed one, with
\* Prediction rows of this run staged on top of the stored ones.
C11_Witness ==
    /\ pc = "raised"
    /\ exc.type = "SQLAlchemyError"
    /\ db.Prediction # <<>>
    /\ Len(session.Prediction) > Len(db.Prediction)

-----------------------------------------------------------------------------
(* C12 *)

\* How many rows of df carry the (League, Date, Home, Away) key of r.
KeyCount(df, r) == Cardinality({j \in 1..Len(df) : SameKey(df[j], r)})

\* The upcoming rows of every league the last run_for_leagues visited.
UpcomingRows ==
    UNION {{<<c, i>> : i \in 1..Len(locals[c].upcoming)} : c \in DOMAIN locals}

\* C12: the combined table _fit_and_predict returns has one row per row of
\* the upcoming set, with the same keys in the same multiplicity, and a
\* refresh() that has visited every league has staged exactly five
\* Prediction rows per upcoming row on top of the store.
C12_OneRowPerUpcoming ==
    /\ \A c \in DOMAIN results :
            LET up == locals[c].upcoming
                cb == results[c].combined
            IN /\ Len(cb) = Len(up)
               /\ \A i \in 1..Len(up) : KeyCount(cb, up[i]) = KeyCount(up, up[i])
    /\ (pc = "upsert" /\ todo = <<>> /\ cur_rows = <<>>) =>
            Len(session.Prediction) - Len(db.Prediction)
                = Len(LABELS) * Cardinality(UpcomingRows)

\* The same, for schedules that list no fixture of the window twice.
C12_HoldsWithoutDuplicates ==
    (\A c \in DOMAIN locals :
        \A i \in 1..Len(locals[c].upcoming) :
            KeyCount(locals[c].upcoming, locals[c].upcoming[i]) = 1)
        => C12_OneRowPerUpcoming

====
